---- MODULE Spec2Model ----
(***************************************************************************)
(* Notification-dispatch core of event_organizer_bot (src/utils/           *)
(* scheduler.py): the reminder scan check_events, the tier evaluation      *)
(* send_event_reminders, the two fan-outs (send_reminder.safe_send and     *)
(* process_single_broadcast_message.send_to_user), the broadcast drain     *)
(* with its three cron jobs and the queue it reads, and the admin handlers *)
(* that touch the same rows while a job is suspended on an await           *)
(* (confirm_reschedule, confirm_cancellation, confirm_broadcast).          *)
(* The admin gate in front of those handlers (middleware/middleware.py and *)
(* check_admin_password) is modelled next to them.                         *)
(*                                                                         *)
(* Time is counted in whole hours: every interval of the code is a whole   *)
(* number of hours, so the boundaries of the windows are exact.            *)
(***************************************************************************)
EXTENDS Integers, Sequences, FiniteSets, TLC

\* ---------------------------------------------------------------- bounds
NumEvents == 2
NumUsers == 2
MaxClock == 4
MaxFaults == 1
MaxAdminOps == 1
MaxRecipients == 22
MaxEntries == 3
MaxDrains == 3
MaxUpdates == 5

\* ------------------------------------------------------ program constants
MAX_CONCURRENT_TASKS == 20
WindowHours == 2
CompletionDelayHours == 1

REMINDER_CONFIGS ==
    << [interval |-> 168, field |-> "reminder_week"],
       [interval |-> 72,  field |-> "reminder_3days"],
       [interval |-> 24,  field |-> "reminder_day"],
       [interval |-> 7,   field |-> "reminder_hours"],
       [interval |-> 4,   field |-> "reminder_hour"] >>

Tiers == 1..Len(REMINDER_CONFIGS)

Events == 1..NumEvents
Users == 1..NumUsers

\* Dates the events of the store may carry: one hour before each tier's
\* window opens (so that the clock walks into and out of every window), and
\* one date that becomes due for completion.
EventDates == {2, 5, 8, 25, 73, 169}

VARIABLES
    clock,        \* wall clock, datetime.now(), in hours
    db,           \* the events table: event id -> row (cancelled = no row)
    pc,           \* where the running check_events is suspended
    now,          \* the scan's local `now`
    events,       \* the scan's remaining in-memory Event objects
    tier,         \* position of the scan in REMINDER_CONFIGS
    failed,       \* recipients whose send failed in the scan's last fan-out
    raised,       \* how the last scan ended: "none", "ok" or "error"
    reminded,     \* history: fan-outs performed per event and tier
    noticed,      \* history: completion notices sent by scans per event
    markFailed,   \* history: failed flag commits per event and tier
    statusFailed, \* history: failed status commits per event
    notifyFailed, \* history: completion notices that raised, per event
    faults,       \* injected failures (store or transport) so far
    adminOps,     \* admin dialogues confirmed so far
    fanKind,      \* fan-out: "none", "reminder" or "broadcast"
    fanPc,        \* fan-out: "idle", "gather", "returned"
    outcome,      \* fan-out: recipient -> what its send will do
    task,         \* fan-out: recipient -> state of its delivery coroutine
    attempts,     \* fan-out: recipient -> number of sends attempted
    fanInput,     \* fan-out: what the store held and what is delivered
    call,         \* fan-out: recipient -> the call made on the bot for it
    semaphore,    \* the Semaphore's free permits
    success,      \* process_single_broadcast_message.success
    errors,       \* process_single_broadcast_message.errors
    pending,      \* counted fan-out: coroutines not yet past the semaphore
    inflight,     \* counted fan-out: coroutines inside `async with semaphore`
    finished,     \* counted fan-out: coroutines that left the semaphore
    queue,        \* the broadcast queue table, in creation order
    dpc,          \* drain job -> where its invocation is suspended
    message,      \* drain job -> id of the entry its invocation fetched (0: none)
    dtask,        \* drain job -> recipient -> state of its send_to_user coroutine
    dlast,        \* how the last drain invocation that ended did end
    fanned,       \* history: fan-outs started per broadcast entry
    drains,       \* history: drain invocations started
    scanned,      \* the interval trigger has started a scan in the current hour
    skipped,      \* a firing of the interval trigger was skipped
    fired,        \* the cron triggers that have fired today
    fsm_state,    \* user -> state of the user's FSMContext
    fsm_data,     \* user -> data of the user's FSMContext (the gate's keys)
    invoked,      \* history: user -> protected handlers invoked, in order
    intercepted,  \* history: user -> the update a middleware intercepted last
    last,         \* history: the last update handled and how it went
    updates,      \* history: updates handled so far
    rescheduleNoticed \* history: reschedule notices sent per event

scanVars == <<pc, now, events, tier, failed, raised>>
histVars == <<reminded, noticed, markFailed, statusFailed, notifyFailed, faults, adminOps>>
fanVars == <<fanKind, fanPc, outcome, task, attempts, success, errors, fanInput, call>>
capVars == <<pending, inflight, finished>>
drainVars == <<queue, dpc, message, dtask, dlast, fanned, drains>>
timerVars == <<scanned, skipped, fired>>
dialogVars == <<fsm_state, fsm_data>>
gateVars == <<invoked, intercepted, last, updates>>
adminVars == <<dialogVars, gateVars, rescheduleNoticed>>
vars ==
    <<clock, db, scanVars, histVars, fanVars, semaphore, capVars, drainVars, timerVars,
      adminVars>>

\* ------------------------------------------------------------ the store
\* Event(name, description, event_date) with the column defaults.
NewEvent(d) ==
    [name           |-> "name",
     description    |-> "description",
     event_date     |-> d,
     status         |-> "active",
     reminder_week  |-> FALSE,
     reminder_3days |-> FALSE,
     reminder_day   |-> FALSE,
     reminder_hours |-> FALSE,
     reminder_hour  |-> FALSE]

\* An Event object loaded into a session.
Loaded(e) == [id |-> e] @@ db[e]

get_active_events_AnyStatus == DOMAIN db

\* Event.get_active_events: the ids with status "active".
get_active_events == {e \in DOMAIN db : db[e].status = "active"}

\* The result rows come in no promised order (no ORDER BY).
Orderings(S) ==
    {s \in [1..Cardinality(S) -> S] : \A i, j \in 1..Cardinality(S) : s[i] = s[j] => i = j}

\* ------------------------------------------------------ reminder tiers
should_send_reminder_Always(event, reminder_type) == TRUE

should_send_reminder_Never(event, reminder_type) == FALSE

should_send_reminder(event, reminder_type) == ~event[reminder_type]

InWindow_LowerInclusive(interval, diff) ==
    /\ interval >= diff
    /\ diff >= interval - WindowHours

InWindow_FourHours(interval, diff) ==
    /\ interval >= diff
    /\ diff > interval - 2 * WindowHours

InWindow_NoLowerBound(interval, diff) == interval >= diff

\* interval >= diff > interval - timedelta(hours=2)
InWindow(interval, diff) ==
    /\ interval >= diff
    /\ diff > interval - WindowHours

\* The entries of REMINDER_CONFIGS from position `from` on whose condition
\* in send_event_reminders is true for the object `event` at time `n`.
Firing(event, n, from) ==
    {k \in Tiers :
        /\ k >= from
        /\ InWindow(REMINDER_CONFIGS[k].interval, event.event_date - n)
        /\ should_send_reminder(event, REMINDER_CONFIGS[k].field)}

Least(S) == CHOOSE k \in S : \A j \in S : k <= j

CompletionDue_WithinFourHours(event, n) == n > event.event_date - 4

\* now > event.event_date + timedelta(hours=1)
CompletionDue(event, n) == n > event.event_date + CompletionDelayHours

fanIdle ==
    /\ fanKind = "none"
    /\ fanPc = "idle"


NoFn == [u \in {} |-> 0]

\* No fan-out is running: nothing was read and nothing is delivered.
NoInput ==
    [known          |-> {},
     registered     |-> {},
     usersRead      |-> TRUE,
     registeredRead |-> TRUE,
     event          |-> 0,
     media_type     |-> "none"]

fanRest ==
    /\ fanInput' = NoInput
    /\ call' = NoFn
    /\ fanKind' = "none"
    /\ fanPc' = "idle"
    /\ outcome' = NoFn
    /\ task' = NoFn
    /\ attempts' = NoFn
    /\ success' = 0
    /\ errors' = 0

\* ------------------------------------------------------- the reminder scan
\* The scan leaves the `for event in events` loop body: next object, or the
\* end of check_events.
NextEvent ==
    /\ events' = Tail(events)
    /\ tier' = 1
    /\ failed' = {}
    /\ IF Tail(events) = <<>>
          THEN /\ pc' = "idle"
               /\ now' = 0
               /\ raised' = "ok"
          ELSE /\ pc' = "eval"
               /\ UNCHANGED <<now, raised>>

\* An exception leaves check_events: nothing in it catches, the session is
\* closed and its objects are dropped.
Abort ==
    /\ pc' = "idle"
    /\ now' = 0
    /\ events' = <<>>
    /\ tier' = 1
    /\ failed' = {}
    /\ raised' = "error"

\* check_events up to the loop: now = datetime.now(), a new session, the
\* active events loaded into it.
check_events ==
    /\ pc = "idle"
    /\ \E order \in Orderings(get_active_events) :
          /\ events' = [i \in DOMAIN order |-> Loaded(order[i])]
          /\ IF order = <<>>
                THEN /\ pc' = "idle"
                     /\ now' = 0
                     /\ raised' = "ok"
                ELSE /\ pc' = "eval"
                     /\ now' = clock
                     /\ raised' = "none"
    /\ tier' = 1
    /\ failed' = {}
    /\ UNCHANGED <<clock, adminVars, drainVars, db, histVars, fanVars, semaphore, capVars>>

\* The synchronous run of send_event_reminders from REMINDER_CONFIGS[tier] to
\* the next tier whose condition is true (suspends in send_reminder), or to
\* its end and then the completion test of check_events (suspends in
\* notify_admins, or goes on to the next event).
send_event_reminders ==
    /\ pc = "eval"
    /\ LET event == Head(events)
           fire == Firing(event, now, tier)
       IN  IF fire # {}
              THEN /\ tier' = Least(fire)
                   /\ pc' = "send"
                   /\ UNCHANGED <<now, events, failed, raised>>
              ELSE IF CompletionDue(event, now)
                      THEN /\ events' = [events EXCEPT ![1].status = "completed"]
                           /\ pc' = "notify"
                           /\ UNCHANGED <<now, tier, failed, raised>>
                      ELSE NextEvent
    /\ UNCHANGED <<clock, adminVars, timerVars, drainVars, db, histVars, fanVars, semaphore, capVars>>

SendReminderRaises_OnFailure(F) == F # {}

\* Whether send_reminder raises when the sends to F failed: never, the
\* failure is logged by safe_send_telegram or by the `except Exception` of
\* send_reminder.
SendReminderRaises(F) == FALSE

\* send_reminder: one send per user id, then back in send_event_reminders.
send_reminder ==
    /\ pc = "send"
    /\ reminded' = [reminded EXCEPT ![Head(events).id][tier] = @ + 1]
    /\ \E F \in SUBSET Users :
          IF SendReminderRaises(F)
             THEN Abort
             ELSE /\ failed' = F
                  /\ pc' = "mark"
                  /\ UNCHANGED <<now, events, tier, raised>>
    /\ UNCHANGED <<clock, adminVars, timerVars, drainVars, db, noticed, markFailed, statusFailed,
                   notifyFailed, faults, adminOps, fanVars, semaphore, capVars>>

\* session.commit() of one dirty attribute of the object `event`: the UPDATE
\* succeeds when the row still exists and the store does not fail.
CanCommit(event, ok) == ok /\ event.id \in DOMAIN db

CommitChoices == IF faults < MaxFaults THEN BOOLEAN ELSE {TRUE}

FlagWritten_EvenIfCommitFails(rows, event, field, committed) ==
    IF event.id \in DOMAIN rows
       THEN [rows EXCEPT ![event.id][field] = TRUE]
       ELSE rows

FlagWritten_AllFlags(rows, event, field, committed) ==
    IF committed
       THEN [rows EXCEPT ![event.id] =
                [f \in DOMAIN @ |->
                    IF f \in {REMINDER_CONFIGS[k].field : k \in Tiers}
                       THEN TRUE ELSE @[f]]]
       ELSE rows

FlagWritten_StaleRow(rows, event, field, committed) ==
    IF committed
       THEN [rows EXCEPT ![event.id] =
                [f \in DOMAIN @ |-> IF f = field THEN TRUE ELSE event[f]]]
       ELSE rows

\* The events table after mark_reminder_sent: the flag is written by the
\* commit, and only by it.
FlagWritten(rows, event, field, committed) ==
    IF committed THEN [rows EXCEPT ![event.id][field] = TRUE] ELSE rows

\* mark_reminder_sent: setattr(event, reminder_type, True); commit.
mark_reminder_sent ==
    /\ pc = "mark"
    /\ \E ok \in CommitChoices :
          LET event == Head(events)
              field == REMINDER_CONFIGS[tier].field
          IN  IF CanCommit(event, ok)
                 THEN /\ db' = FlagWritten(db, event, field, TRUE)
                      /\ events' = [events EXCEPT ![1][field] = TRUE]
                      /\ tier' = tier + 1
                      /\ pc' = "eval"
                      /\ UNCHANGED <<now, failed, raised, markFailed, faults>>
                 ELSE /\ Abort
                      /\ markFailed' = [markFailed EXCEPT ![event.id][tier] = @ + 1]
                      /\ faults' = IF ok THEN faults ELSE faults + 1
                      /\ db' = FlagWritten(db, event, field, FALSE)
    /\ UNCHANGED <<clock, adminVars, timerVars, drainVars, reminded, noticed, statusFailed, notifyFailed,
                   adminOps, fanVars, semaphore, capVars>>

\* How notify_admins goes.  "ok": every admin was sent the notice (a
\* TelegramAPIError is logged by safe_send_telegram); "read_error":
\* User.get_all_admins raises; "send_error": a send raises something that is
\* not a TelegramAPIError, after none or some of the admins were notified.
NotifyChoices ==
    IF faults < MaxFaults THEN {"ok", "read_error", "send_error"} ELSE {"ok"}

NotifyRaises_Never(r) == FALSE

\* Nothing in notify_admins or check_events catches the two errors.
NotifyRaises(r) == r # "ok"

\* Whether the admins were sent the notice (1) or not (0) when notify_admins
\* went as r.
Notified(r) ==
    IF r = "ok" THEN {1} ELSE IF r = "read_error" THEN {0} ELSE {0, 1}

\* notify_admins: the completion notice goes to every admin.
notify_admins ==
    /\ pc = "notify"
    /\ \E r \in NotifyChoices : \E part \in Notified(r) :
          LET e == Head(events).id
          IN  /\ noticed' = [noticed EXCEPT ![e] = @ + part]
              /\ IF NotifyRaises(r)
                    THEN /\ Abort
                         /\ notifyFailed' = [notifyFailed EXCEPT ![e] = @ + 1]
                         /\ faults' = faults + 1
                    ELSE /\ pc' = "commit"
                         /\ UNCHANGED <<now, events, tier, failed, raised,
                                        notifyFailed, faults>>
    /\ UNCHANGED <<clock, adminVars, timerVars, drainVars, db, reminded, markFailed, statusFailed,
                   adminOps, fanVars, semaphore, capVars>>

\* check_events, `await session.commit()` of event.status = "completed".
commit_status ==
    /\ pc = "commit"
    /\ \E ok \in CommitChoices :
          LET event == Head(events)
          IN  IF CanCommit(event, ok)
                 THEN /\ db' = [db EXCEPT ![event.id].status = "completed"]
                      /\ NextEvent
                      /\ UNCHANGED <<statusFailed, faults>>
                 ELSE /\ Abort
                      /\ statusFailed' = [statusFailed EXCEPT ![event.id] = @ + 1]
                      /\ faults' = IF ok THEN faults ELSE faults + 1
                      /\ UNCHANGED db
    /\ UNCHANGED <<clock, adminVars, timerVars, drainVars, reminded, noticed, markFailed, notifyFailed,
                   adminOps, fanVars, semaphore, capVars>>

\* ------------------------------------------------------- admin handlers
Rescheduled_ResetsReminders(row, d) == [NewEvent(d) EXCEPT !.status = row.status]

Rescheduled_Reactivates(row, d) == [row EXCEPT !.event_date = d, !.status = "active"]

\* event.event_date = new_date
Rescheduled(row, d) == [row EXCEPT !.event_date = d]

\* The data of an FSMContext, as far as the admin gate writes it; also what
\* state.clear() leaves.
NoData == [original_command |-> "none", original_callback |-> "none"]

\* No update has been handled yet.
NoUpdate ==
    [user |-> 0, update |-> "none", text |-> "none", outcome |-> "none", event_id |-> 0,
     new_date |-> 0]

\* The id in the dialogue data of an event that was cancelled after the admin
\* chose it.
CancelledId == NumEvents + 1

RescheduleBranch_NoPastCheck(rows, e, d, n) ==
    IF e \notin DOMAIN rows
       THEN "unknown"
       ELSE IF rows[e].event_date = d THEN "same" ELSE "accepted"

\* The way confirm_reschedule takes for event_id = e and new_date = d at
\* datetime.now() = n.
RescheduleBranch(rows, e, d, n) ==
    IF d <= n
       THEN "past"
       ELSE IF e \notin DOMAIN rows
               THEN "unknown"
               ELSE IF rows[e].event_date = d THEN "same" ELSE "accepted"

\* confirm_reschedule, pressed by user u in state RescheduleEvent.confirmation
\* with event_id = e and new_date = d in the dialogue data (any event chosen
\* and any date entered earlier in the dialogue).
confirm_reschedule(u, e, d) ==
    /\ fsm_state[u] = "RescheduleEvent:confirmation"
    /\ adminOps < MaxAdminOps
    /\ adminOps' = adminOps + 1
    /\ IF RescheduleBranch(db, e, d, clock) = "accepted"
          THEN /\ db' = [db EXCEPT ![e] = Rescheduled(db[e], d)]
               /\ rescheduleNoticed' = [rescheduleNoticed EXCEPT ![e] = @ + 1]
          ELSE UNCHANGED <<db, rescheduleNoticed>>
    /\ fsm_state' = [fsm_state EXCEPT ![u] = "none"]
    /\ fsm_data' = [fsm_data EXCEPT ![u] = NoData]
    /\ last' = [user |-> u, update |-> "callback", text |-> "confirm_reschedule",
                outcome |-> RescheduleBranch(db, e, d, clock), event_id |-> e,
                new_date |-> d]
    /\ UNCHANGED <<clock, invoked, intercepted, updates, timerVars, drainVars, scanVars,
                   reminded, noticed,
                   markFailed, statusFailed, notifyFailed, faults, fanVars, semaphore,
                   capVars>>

\* Event.cancel_event, called by confirm_cancellation: the row is deleted.
cancel_event(e) ==
    /\ adminOps < MaxAdminOps
    /\ adminOps' = adminOps + 1
    /\ IF e \in DOMAIN db
          THEN db' = [x \in DOMAIN db \ {e} |-> db[x]]
          ELSE UNCHANGED db
    /\ UNCHANGED <<clock, adminVars, timerVars, drainVars, scanVars, reminded, noticed, markFailed,
                   statusFailed, notifyFailed, faults, fanVars, semaphore, capVars>>

\* One hour passes.
Tick ==
    /\ clock < MaxClock
    /\ clock' = clock + 1
    /\ UNCHANGED <<db, adminVars, timerVars, drainVars, scanVars, histVars, fanVars, semaphore,
                   capVars>>

\* ------------------------------------------------------------ fan-out
\* What a send does: it returns, it raises TelegramAPIError, or it raises
\* another exception.
Outcomes == {"ok", "api_error", "error"}

Final == {"sent", "failed", "raised"}

capIdle ==
    /\ pending = 0
    /\ inflight = 0
    /\ finished = 0

locked_Never(value) == FALSE

\* Semaphore.locked(): no permit is free, `async with semaphore` waits.
locked(value) == value = 0

\* User.get_all_user_ids: every user id of the store, or [] when the read
\* fails (the SQLAlchemyError is logged there).
get_all_user_ids(known, readable) == IF readable THEN known ELSE {}

\* Registration.get_registered_users: the ids registered for the event, or []
\* when the read fails (the SQLAlchemyError is logged there).
get_registered_users(registered, readable) == IF readable THEN registered ELSE {}

\* The media_type values confirm_broadcast stores.
MediaTypes == {"text", "photo", "voice", "video_note", "video"}

\* What a fan-out of the given kind may find in the store and deliver: the
\* registered ids are ids of users (Registration joins User).
FanInputs(kind) ==
    IF kind = "reminder"
       THEN {i \in [known : SUBSET Users, registered : SUBSET Users,
                    usersRead : BOOLEAN, registeredRead : BOOLEAN,
                    event : Events, media_type : {"none"}] :
                i.registered \subseteq i.known}
       ELSE [known : SUBSET Users, registered : {{}},
             usersRead : BOOLEAN, registeredRead : {TRUE},
             event : {0}, media_type : MediaTypes]

\* The user ids the tasks are built for.
Recipients(i) == get_all_user_ids(i.known, i.usersRead)

\* reply_markup=None
NoKeyboard == [kind |-> "none", event |-> 0]

\* get_registration_kb(event.id)
get_registration_kb(event_id) == [kind |-> "registration", event |-> event_id]

\* No call was made on the bot.
NoCall == [method |-> "none", text |-> "none", media |-> FALSE, keyboard |-> NoKeyboard]

\* safe_send(user_id, text or text + call-to-action, None or keyboard), which
\* ends in bot.send_message(chat_id, text, reply_markup=keyboard).
ReminderCall(u, registered_users, event_id) ==
    [method   |-> "send_message",
     text     |-> IF u \in registered_users THEN "text" ELSE "text_register",
     media    |-> FALSE,
     keyboard |-> IF u \in registered_users
                     THEN NoKeyboard ELSE get_registration_kb(event_id)]

SendMethod_AlwaysMessage(media_type) == "send_message"

\* The if/elif chain of send_to_user over message.media_type.
SendMethod(media_type) ==
    IF media_type = "photo" THEN "send_photo"
    ELSE IF media_type = "voice" THEN "send_voice"
    ELSE IF media_type = "video_note" THEN "send_video_note"
    ELSE IF media_type = "video" THEN "send_video"
    ELSE "send_message"

\* The call of send_to_user: the media calls pass message.media_id, with
\* message.text as caption except for a video note; send_message passes
\* message.text.
BroadcastCall(media_type) ==
    [method   |-> SendMethod(media_type),
     text     |-> IF SendMethod(media_type) = "send_message" THEN "text"
                  ELSE IF SendMethod(media_type) = "send_video_note" THEN "none"
                  ELSE "caption",
     media    |-> SendMethod(media_type) # "send_message",
     keyboard |-> NoKeyboard]

\* tasks = [...]; await gather(*tasks): one coroutine per user id read from
\* the store, behind a new Semaphore(MAX_CONCURRENT_TASKS).  kind "reminder"
\* is send_reminder, kind "broadcast" is process_single_broadcast_message.
gather(kind, R, out) ==
    /\ fanIdle
    /\ capIdle
    /\ \E i \in FanInputs(kind) :
          /\ R = Recipients(i)
          /\ fanInput' = i
    /\ call' = [u \in R |-> NoCall]
    /\ fanKind' = kind
    /\ fanPc' = "gather"
    /\ outcome' = out
    /\ task' = [u \in R |-> "created"]
    /\ attempts' = [u \in R |-> 0]
    /\ success' = 0
    /\ errors' = 0
    /\ semaphore' = MAX_CONCURRENT_TASKS
    /\ UNCHANGED <<clock, adminVars, timerVars, drainVars, db, scanVars, histVars, capVars>>

\* `async with semaphore:` entered by the coroutine of user u, which then
\* calls the bot.
acquire(u) ==
    /\ fanPc \in {"gather", "returned", "marked"}
    /\ u \in DOMAIN task
    /\ task[u] = "created"
    /\ ~locked(semaphore)
    /\ semaphore' = semaphore - 1
    /\ task' = [task EXCEPT ![u] = "sending"]
    /\ attempts' = [attempts EXCEPT ![u] = @ + 1]
    /\ call' = [call EXCEPT ![u] =
                   IF fanKind = "reminder"
                      THEN ReminderCall(u, get_registered_users(fanInput.registered,
                                                                fanInput.registeredRead),
                                        fanInput.event)
                      ELSE BroadcastCall(fanInput.media_type)]
    /\ UNCHANGED <<clock, adminVars, timerVars, drainVars, db, scanVars, histVars, fanKind, fanPc, outcome,
                   success, errors, fanInput, capVars>>

\* How the coroutine of a reminder ends: safe_send_telegram catches
\* TelegramAPIError only, anything else leaves safe_send.
ReminderEnd(o) ==
    IF o = "ok" THEN "sent" ELSE IF o = "api_error" THEN "failed" ELSE "raised"

BroadcastEnd_TelegramOnly(o) ==
    IF o = "ok" THEN "sent" ELSE IF o = "api_error" THEN "failed" ELSE "raised"

\* How send_to_user ends: `except (TelegramAPIError, Exception)` counts every
\* failure.
BroadcastEnd(o) == IF o = "ok" THEN "sent" ELSE "failed"

ErrorsAfter_TelegramOnly(o, n) == IF o = "api_error" THEN n + 1 ELSE n

\* errors += 1 in the except branch of send_to_user.
ErrorsAfter(o, n) == IF o = "ok" THEN n ELSE n + 1

\* success += 1 after the send of send_to_user.
SuccessAfter(o, n) == IF o = "ok" THEN n + 1 ELSE n

\* The send of user u ends and the semaphore is released.
release(u) ==
    /\ u \in DOMAIN task
    /\ task[u] = "sending"
    /\ semaphore' = semaphore + 1
    /\ IF fanKind = "broadcast"
          THEN /\ task' = [task EXCEPT ![u] = BroadcastEnd(outcome[u])]
               /\ success' = SuccessAfter(outcome[u], success)
               /\ errors' = ErrorsAfter(outcome[u], errors)
          ELSE /\ task' = [task EXCEPT ![u] = ReminderEnd(outcome[u])]
               /\ UNCHANGED <<success, errors>>
    /\ UNCHANGED <<clock, adminVars, timerVars, drainVars, db, scanVars, histVars, fanKind, fanPc, outcome,
                   attempts, fanInput, call, capVars>>

\* `await gather(*tasks)` resumes: when every coroutine has ended, or as soon
\* as one has raised (the others keep running).
gather_returns ==
    /\ fanPc = "gather"
    /\ \/ \A u \in DOMAIN task : task[u] \in Final
       \/ \E u \in DOMAIN task : task[u] = "raised"
    /\ fanPc' = "returned"
    /\ UNCHANGED <<clock, adminVars, timerVars, drainVars, db, scanVars, histVars, fanKind, outcome, task,
                   attempts, success, errors, fanInput, call, semaphore, capVars>>

\* The caller's next step after the gather: send_reminder returns (an
\* exception of the gather is logged by its `except Exception`) and
\* send_event_reminders calls mark_reminder_sent; the drain calls
\* BroadcastQueue.mark_as_sent unless the gather raised.
mark_after_gather ==
    /\ fanPc = "returned"
    /\ fanKind = "broadcast" => \A u \in DOMAIN task : task[u] # "raised"
    /\ fanPc' = "marked"
    /\ UNCHANGED <<clock, adminVars, timerVars, drainVars, db, scanVars, histVars, fanKind, outcome, task,
                   attempts, success, errors, fanInput, call, semaphore, capVars>>

\* The fan-out is over: its caller went on and no coroutine is left.
fanout_over ==
    /\ fanPc = "marked"
    /\ \A u \in DOMAIN task : task[u] \in Final
    /\ fanRest
    /\ semaphore' = MAX_CONCURRENT_TASKS
    /\ UNCHANGED <<clock, adminVars, timerVars, drainVars, db, scanVars, histVars, capVars>>

\* The same fan-out with its coroutines counted instead of named, for user
\* lists longer than the semaphore's size.
gather_counted(n) ==
    /\ fanIdle
    /\ capIdle
    /\ n > 0
    /\ pending' = n
    /\ inflight' = 0
    /\ finished' = 0
    /\ semaphore' = MAX_CONCURRENT_TASKS
    /\ UNCHANGED <<clock, adminVars, timerVars, drainVars, db, scanVars, histVars, fanVars>>

acquire_counted ==
    /\ pending > 0
    /\ ~locked(semaphore)
    /\ semaphore' = semaphore - 1
    /\ pending' = pending - 1
    /\ inflight' = inflight + 1
    /\ UNCHANGED <<clock, adminVars, timerVars, drainVars, db, scanVars, histVars, fanVars, finished>>

release_counted ==
    /\ inflight > 0
    /\ semaphore' = semaphore + 1
    /\ inflight' = inflight - 1
    /\ finished' = finished + 1
    /\ UNCHANGED <<clock, adminVars, timerVars, drainVars, db, scanVars, histVars, fanVars, pending>>

fanout_over_counted ==
    /\ finished > 0
    /\ pending = 0
    /\ inflight = 0
    /\ finished' = 0
    /\ semaphore' = MAX_CONCURRENT_TASKS
    /\ UNCHANGED <<clock, adminVars, timerVars, drainVars, db, scanVars, histVars, fanVars, pending, inflight>>

\* ------------------------------------------------- the broadcast drain
\* The cron jobs of process_single_broadcast_message, by their hour: three
\* separate jobs of the scheduler, each limited to one running instance.
CronHours == {9, 10, 19}

\* The broadcast queue table (BroadcastQueue): its rows in creation order,
\* the id of a row is its position, `sent` is the sent/not-sent marker.
NewEntry == [sent |-> FALSE]

\* BroadcastQueue.add_to_queue: a new row, not sent.
add_to_queue(q) == Append(q, NewEntry)

Ascending(S) ==
    CHOOSE s \in [1..Cardinality(S) -> S] : \A i, j \in 1..Cardinality(S) : i < j => s[i] < s[j]

Descending(S) ==
    CHOOSE s \in [1..Cardinality(S) -> S] : \A i, j \in 1..Cardinality(S) : i < j => s[i] > s[j]

FirstOf(s, limit) == SubSeq(s, 1, IF Len(s) < limit THEN Len(s) ELSE limit)

get_pending_messages_NewestFirst(q, limit) ==
    FirstOf(Descending({i \in DOMAIN q : ~q[i].sent}), limit)

get_pending_messages_IncludingSent(q, limit) == FirstOf(Ascending(DOMAIN q), limit)

\* BroadcastQueue.get_pending_messages: the ids of the rows not marked sent,
\* oldest first, at most `limit` of them.
get_pending_messages(q, limit) ==
    FirstOf(Ascending({i \in DOMAIN q : ~q[i].sent}), limit)

mark_as_sent_EvenIfCommitFails(q, id, committed) ==
    IF id \in DOMAIN q THEN [q EXCEPT ![id].sent = TRUE] ELSE q

\* BroadcastQueue.mark_as_sent: the marker of row `id` is set by the commit.
mark_as_sent(q, id, committed) ==
    IF committed /\ id \in DOMAIN q THEN [q EXCEPT ![id].sent = TRUE] ELSE q

\* confirm_broadcast: the admin's message is added to the queue.
confirm_broadcast ==
    /\ Len(queue) < MaxEntries
    /\ queue' = add_to_queue(queue)
    /\ UNCHANGED <<clock, adminVars, timerVars, db, scanVars, histVars, fanVars, semaphore, capVars,
                   dpc, message, dtask, dlast, fanned, drains>>

\* A read of the store either returns or (while failures may be injected)
\* raises.
ReadChoices == IF faults < MaxFaults THEN BOOLEAN ELSE {TRUE}

\* get_pending_data_for_single_broadcast: pending_message[0] or None (0).
PendingMessage(list) == IF list # <<>> THEN list[1] ELSE 0

\* The invocation of job j is over.
DrainEnds(j, how) ==
    /\ dpc' = [dpc EXCEPT ![j] = "idle"]
    /\ message' = [message EXCEPT ![j] = 0]
    /\ dtask' = [dtask EXCEPT ![j] = NoFn]
    /\ dlast' = how

\* process_single_broadcast_message from its start to `await gather(*tasks)`:
\* the trigger of job j fires while no instance of job j runs; the oldest
\* pending entry and the user ids are read; without an entry the invocation
\* returns, otherwise one send_to_user coroutine per user id is created.  A
\* failed read of the queue is logged by the `except Exception` of the job.
process_single_broadcast_message(j) ==
    /\ dpc[j] = "idle"
    /\ drains < MaxDrains
    /\ drains' = drains + 1
    /\ \E readable \in ReadChoices :
          IF ~readable
             THEN /\ DrainEnds(j, "logged")
                  /\ faults' = faults + 1
                  /\ UNCHANGED fanned
             ELSE \E usersRead \in ReadChoices :
                     LET id == PendingMessage(get_pending_messages(queue, 1))
                         users == get_all_user_ids(Users, usersRead)
                     IN  /\ faults' = IF usersRead THEN faults ELSE faults + 1
                         /\ IF id = 0
                               THEN /\ DrainEnds(j, "noop")
                                    /\ UNCHANGED fanned
                               ELSE /\ dpc' = [dpc EXCEPT ![j] = "gather"]
                                    /\ message' = [message EXCEPT ![j] = id]
                                    /\ dtask' = [dtask EXCEPT ![j] = [u \in users |-> "created"]]
                                    /\ fanned' = [fanned EXCEPT ![id] = @ + 1]
                                    /\ UNCHANGED dlast
    /\ UNCHANGED <<clock, adminVars, db, scanVars, reminded, noticed, markFailed, statusFailed,
                   notifyFailed, adminOps, fanVars, semaphore, capVars, queue>>

\* The permits left of the invocation's Semaphore(MAX_CONCURRENT_TASKS).
Permits(j) ==
    MAX_CONCURRENT_TASKS - Cardinality({u \in DOMAIN dtask[j] : dtask[j][u] = "sending"})

\* send_to_user(u) of job j passes `async with semaphore` and calls the bot.
send_to_user(j, u) ==
    /\ dpc[j] = "gather"
    /\ u \in DOMAIN dtask[j]
    /\ dtask[j][u] = "created"
    /\ ~locked(Permits(j))
    /\ dtask' = [dtask EXCEPT ![j][u] = "sending"]
    /\ UNCHANGED <<clock, adminVars, timerVars, db, scanVars, histVars, fanVars, semaphore, capVars,
                   queue, dpc, message, dlast, fanned, drains>>

\* The send of send_to_user(u) returns or raises, the coroutine ends.
send_to_user_ends(j, u) ==
    /\ u \in DOMAIN dtask[j]
    /\ dtask[j][u] = "sending"
    /\ \E o \in Outcomes : dtask' = [dtask EXCEPT ![j][u] = BroadcastEnd(o)]
    /\ UNCHANGED <<clock, adminVars, timerVars, db, scanVars, histVars, fanVars, semaphore, capVars,
                   queue, dpc, message, dlast, fanned, drains>>

\* `await gather(*tasks)` of job j resumes: every coroutine has ended and the
\* job goes on to mark_as_sent, or one has raised and the exception is logged
\* by the `except Exception` of the job.
broadcast_gather_returns(j) ==
    /\ dpc[j] = "gather"
    /\ \/ \A u \in DOMAIN dtask[j] : dtask[j][u] \in Final
       \/ \E u \in DOMAIN dtask[j] : dtask[j][u] = "raised"
    /\ IF \E u \in DOMAIN dtask[j] : dtask[j][u] = "raised"
          THEN DrainEnds(j, "logged")
          ELSE /\ dpc' = [dpc EXCEPT ![j] = "mark"]
               /\ UNCHANGED <<message, dtask, dlast>>
    /\ UNCHANGED <<clock, adminVars, timerVars, db, scanVars, histVars, fanVars, semaphore, capVars,
                   queue, fanned, drains>>

\* await BroadcastQueue.mark_as_sent(session, message.id), then the end of
\* the job; a failure is logged by the `except Exception` of the job.
mark_entry_sent(j) ==
    /\ dpc[j] = "mark"
    /\ \E ok \in CommitChoices :
          /\ queue' = mark_as_sent(queue, message[j], ok)
          /\ DrainEnds(j, IF ok THEN "done" ELSE "logged")
          /\ faults' = IF ok THEN faults ELSE faults + 1
    /\ UNCHANGED <<clock, adminVars, timerVars, db, scanVars, reminded, noticed, markFailed, statusFailed,
                   notifyFailed, adminOps, fanVars, semaphore, capVars, fanned, drains>>

\* ------------------------------------------------------------ the timers
\* setup_scheduler: check_events is one interval job, and the scheduler runs
\* one instance of a job at a time.  The interval trigger fires while no scan
\* is running: the scan starts.
interval_fires ==
    /\ check_events
    /\ scanned' = TRUE
    /\ UNCHANGED <<skipped, fired>>

\* The interval trigger fires while the scan is still running: the scheduler
\* skips this run of the job.
interval_skipped ==
    /\ pc # "idle"
    /\ skipped' = TRUE
    /\ UNCHANGED <<clock, adminVars, db, scanVars, histVars, fanVars, semaphore, capVars,
                   drainVars, scanned, fired>>

Due_Always(j, done) == TRUE

\* trigger='cron', hour=j, minute=0: the trigger of job j fires once a day,
\* after the triggers of the earlier hours.
Due(j, done) ==
    /\ j \notin done
    /\ \A i \in CronHours : i < j => i \in done

\* The cron trigger of job j fires: process_single_broadcast_message starts.
cron_fires(j) ==
    /\ Due(j, fired)
    /\ fired' = fired \cup {j}
    /\ process_single_broadcast_message(j)
    /\ UNCHANGED <<scanned, skipped>>

\* One hour passes in which the interval trigger has started a scan and the
\* scan has ended (the trigger fires every 20 minutes).
TickLive ==
    /\ pc = "idle"
    /\ scanned
    /\ clock < MaxClock
    /\ clock' = clock + 1
    /\ scanned' = FALSE
    /\ UNCHANGED <<db, adminVars, scanVars, histVars, fanVars, semaphore, capVars,
                   drainVars, skipped, fired>>

\* ---------------------------------------------------------- admin gate
\* User.is_admin: user 1 is an administrator, the others are not.
Admins == {1}

\* check_admin_cached -> User.check_admin: the user's is_admin, False for an
\* unknown user.
check_admin_cached(user_id) == user_id \in Admins

\* Two of the eight entries of ADMIN_COMMANDS.
ADMIN_COMMANDS == {"/add_event", "/broadcast"}

\* Two of the callback data with the prefix "command_".
AdminCallbacks == {"command_add_event", "command_broadcast"}

\* What a user types when asked for the password.
Passwords == {"secret", "guess"}

\* User.get_password_hash
get_password_hash(password) == <<"bcrypt", password>>

\* User.password_hash: set for the administrators.
password_hash ==
    [u \in Users |-> IF u \in Admins THEN get_password_hash("secret") ELSE <<>>]

verify_password_Any(user_id, password) == TRUE

\* User.verify_password
verify_password(user_id, password) == get_password_hash(password) = password_hash[user_id]

\* original_callback.split("command_")[1]
CommandOf(original_callback) ==
    CASE original_callback = "command_add_event" -> "add_event"
      [] original_callback = "command_broadcast" -> "broadcast"
      [] OTHER -> "none"

\* commands_map of handle_callback_command, for the two commands, and the
\* state each of the two handlers sets.
commands_map == [add_event |-> "add_event", broadcast |-> "broadcast"]

HandlerState == [add_event |-> "AddEvent:name", broadcast |-> "BroadcastMessage:message"]

\* The states in which a message handler's filters match any text: an inner
\* middleware is called around a handler that matched.
MessageStates ==
    {"AdminAuth:password", "RegistrationForm:DYNAMIC_QUESTION", "AddEvent:name",
     "BroadcastMessage:message"}

\* FakeCallbackQuery(data) builds an aiogram User from the keys callback_*
\* of the state data, which no middleware stores: whether the object is
\* built or the constructor raises is the library's validation.
FakeCallbackQueryChoices == {"built", "raises"}

Handled(u, update, text, how) ==
    /\ updates < MaxUpdates
    /\ updates' = updates + 1
    /\ last' = [NoUpdate EXCEPT !.user = u, !.update = update, !.text = text,
                                !.outcome = how]

gateRest ==
    UNCHANGED <<clock, db, scanVars, histVars, fanVars, semaphore, capVars, drainVars,
                timerVars, rescheduleNoticed>>

\* confirm_yes -> ask_question: the registration dialogue asks the event's
\* first question.
confirm_yes(u) ==
    /\ fsm_state' = [fsm_state EXCEPT ![u] = "RegistrationForm:DYNAMIC_QUESTION"]
    /\ Handled(u, "callback", "confirm_yes", "asked")
    /\ UNCHANGED <<fsm_data, invoked, intercepted>>
    /\ gateRest

\* AdminAuthMiddleware.__call__ for a message of user u whose text starts
\* with an admin command: the handler that matched is not called.
AdminAuthMiddleware(u, text) ==
    /\ fsm_state[u] \in MessageStates
    /\ IF ~check_admin_cached(u)
          THEN /\ Handled(u, "message", text, "refused")
               /\ UNCHANGED <<fsm_state, fsm_data, intercepted>>
          ELSE /\ Handled(u, "message", text, "intercepted")
               /\ fsm_data' = [fsm_data EXCEPT ![u].original_command = text]
               /\ fsm_state' = [fsm_state EXCEPT ![u] = "AdminAuth:password"]
               /\ intercepted' = [intercepted EXCEPT ![u] = text]
    /\ UNCHANGED invoked
    /\ gateRest

\* AdminCallbackMiddleware.__call__ for a callback of user u whose data
\* starts with "command_": the handler that matched is not called.
AdminCallbackMiddleware(u, data) ==
    /\ IF ~check_admin_cached(u)
          THEN /\ Handled(u, "callback", data, "refused")
               /\ UNCHANGED <<fsm_state, fsm_data, intercepted>>
          ELSE /\ Handled(u, "callback", data, "intercepted")
               /\ fsm_data' = [fsm_data EXCEPT ![u].original_callback = data]
               /\ fsm_state' = [fsm_state EXCEPT ![u] = "AdminAuth:password"]
               /\ intercepted' = [intercepted EXCEPT ![u] = data]
    /\ UNCHANGED invoked
    /\ gateRest

\* handle_callback_command: the handler of commands_map is called and sets
\* its dialogue's first state.
handle_callback_command(u, command) ==
    IF command \in DOMAIN commands_map
       THEN /\ invoked' = [invoked EXCEPT ![u] = Append(@, commands_map[command])]
            /\ fsm_state' = [fsm_state EXCEPT ![u] = HandlerState[command]]
       ELSE UNCHANGED <<invoked, fsm_state>>

\* check_admin_password for a text of user u in state AdminAuth.password.
check_admin_password(u, text) ==
    /\ fsm_state[u] = "AdminAuth:password"
    /\ IF verify_password(u, text)
          THEN LET original_callback == fsm_data[u].original_callback
               IN  IF original_callback # "none"
                      THEN \E r \in FakeCallbackQueryChoices :
                              IF r = "built"
                                 THEN /\ handle_callback_command(u, CommandOf(original_callback))
                                      /\ Handled(u, "password", text, "resumed")
                                      /\ UNCHANGED fsm_data
                                 ELSE /\ Handled(u, "password", text, "raised")
                                      /\ UNCHANGED <<fsm_state, fsm_data, invoked>>
                      ELSE /\ fsm_state' = [fsm_state EXCEPT ![u] = "none"]
                           /\ fsm_data' = [fsm_data EXCEPT ![u] = NoData]
                           /\ Handled(u, "password", text, "cleared")
                           /\ UNCHANGED invoked
          ELSE /\ Handled(u, "password", text, "wrong")
               /\ UNCHANGED <<fsm_state, fsm_data, invoked>>
    /\ UNCHANGED intercepted
    /\ gateRest

\* ------------------------------------------------------- specification
\* The process has started: no scan and no fan-out is running.
Started ==
    /\ clock = 0
    /\ pc = "idle"
    /\ now = 0
    /\ events = <<>>
    /\ tier = 1
    /\ failed = {}
    /\ raised = "none"
    /\ reminded = [e \in Events |-> [k \in Tiers |-> 0]]
    /\ noticed = [e \in Events |-> 0]
    /\ markFailed = [e \in Events |-> [k \in Tiers |-> 0]]
    /\ statusFailed = [e \in Events |-> 0]
    /\ notifyFailed = [e \in Events |-> 0]
    /\ faults = 0
    /\ adminOps = 0
    /\ fanKind = "none"
    /\ fanPc = "idle"
    /\ fanInput = NoInput
    /\ call = NoFn
    /\ outcome = NoFn
    /\ task = NoFn
    /\ attempts = NoFn
    /\ success = 0
    /\ errors = 0
    /\ semaphore = MAX_CONCURRENT_TASKS
    /\ pending = 0
    /\ inflight = 0
    /\ finished = 0
    /\ queue = <<>>
    /\ dpc = [j \in CronHours |-> "idle"]
    /\ message = [j \in CronHours |-> 0]
    /\ dtask = [j \in CronHours |-> NoFn]
    /\ dlast = "none"
    /\ fanned = [m \in 1..MaxEntries |-> 0]
    /\ drains = 0
    /\ scanned = FALSE
    /\ skipped = FALSE
    /\ fired = {}
    /\ fsm_data = [u \in Users |-> NoData]
    /\ invoked = [u \in Users |-> <<>>]
    /\ intercepted = [u \in Users |-> "none"]
    /\ last = NoUpdate
    /\ updates = 0
    /\ rescheduleNoticed = [e \in Events |-> 0]

\* No user is in a dialogue.
NoDialogue == fsm_state = [u \in Users |-> "none"]

\* The store holds NumEvents new events, and the administrators have been
\* shown the confirmation prompt of the reschedule dialogue.
Init ==
    /\ Started
    /\ fsm_state = [u \in Users |->
                       IF check_admin_cached(u) THEN "RescheduleEvent:confirmation"
                                                ELSE "none"]
    /\ db \in [Events -> {NewEvent(d) : d \in EventDates}]

\* The store holds no event.
InitFanout ==
    /\ Started
    /\ NoDialogue
    /\ db = NoFn

\* The jobs start at any time: the triggers of the scheduler are left out.
Next ==
    \/ check_events /\ UNCHANGED timerVars
    \/ send_event_reminders
    \/ send_reminder
    \/ mark_reminder_sent
    \/ notify_admins
    \/ commit_status
    \/ \E u \in Users, e \in Events \cup {CancelledId}, d \in EventDates :
          confirm_reschedule(u, e, d)
    \/ \E e \in Events : cancel_event(e)
    \/ Tick

Spec == Init /\ [][Next]_vars

\* The fan-outs on their own, over every user list and every behaviour of the
\* sends.
NextFanout ==
    \/ \E kind \in {"reminder", "broadcast"}, R \in SUBSET Users :
          \E out \in [R -> Outcomes] : gather(kind, R, out)
    \/ \E u \in Users : acquire(u)
    \/ \E u \in Users : release(u)
    \/ gather_returns
    \/ mark_after_gather
    \/ fanout_over
    \/ \E n \in 1..MaxRecipients : gather_counted(n)
    \/ acquire_counted
    \/ release_counted
    \/ fanout_over_counted

SpecFanout == InitFanout /\ [][NextFanout]_vars

\* An event of the past, completed by an earlier scan.
Archived == [NewEvent(0 - 2) EXCEPT !.status = "completed"]

\* The store holds no event, or completed events only.
InitDrain ==
    /\ Started
    /\ NoDialogue
    /\ db \in {NoFn, [e \in Events |-> Archived]}

\* The broadcast queue and its drain jobs, next to scans that find no active
\* event.
NextDrain ==
    \/ confirm_broadcast
    \/ \E j \in CronHours : process_single_broadcast_message(j) /\ UNCHANGED timerVars
    \/ \E j \in CronHours, u \in Users : send_to_user(j, u)
    \/ \E j \in CronHours, u \in Users : send_to_user_ends(j, u)
    \/ \E j \in CronHours : broadcast_gather_returns(j)
    \/ \E j \in CronHours : mark_entry_sent(j)
    \/ check_events /\ UNCHANGED timerVars

SpecDrain == InitDrain /\ [][NextDrain]_vars

\* The reminder scan under its trigger, no admin acting, with time passing
\* only after a scan: every step of a started scan is eventually taken, the
\* trigger keeps firing and time keeps passing.
NextLive ==
    \/ interval_fires
    \/ send_event_reminders
    \/ send_reminder
    \/ mark_reminder_sent
    \/ notify_admins
    \/ commit_status
    \/ TickLive

SpecLive ==
    /\ Init
    /\ [][NextLive]_vars
    /\ WF_vars(interval_fires)
    /\ WF_vars(send_event_reminders)
    /\ WF_vars(send_reminder)
    /\ WF_vars(mark_reminder_sent)
    /\ WF_vars(notify_admins)
    /\ WF_vars(commit_status)
    /\ SF_vars(TickLive)

\* The store holds NumEvents new events more than a week ahead.
InitTimers ==
    /\ Started
    /\ NoDialogue
    /\ db \in [Events -> {NewEvent(d) : d \in {x \in EventDates :
                                                  x > REMINDER_CONFIGS[1].interval}}]

\* One day of the scheduler: the interval trigger and the three cron
\* triggers with the jobs they start.
NextTimers ==
    \/ interval_fires
    \/ interval_skipped
    \/ send_event_reminders
    \/ \E j \in CronHours : cron_fires(j)
    \/ confirm_broadcast
    \/ \E j \in CronHours, u \in Users : send_to_user(j, u)
    \/ \E j \in CronHours, u \in Users : send_to_user_ends(j, u)
    \/ \E j \in CronHours : broadcast_gather_returns(j)
    \/ \E j \in CronHours : mark_entry_sent(j)

SpecTimers == InitTimers /\ [][NextTimers]_vars


\* The admin gate on its own: the updates of the users in any order.
InitAdmin ==
    /\ Started
    /\ NoDialogue
    /\ db = NoFn

NextAdmin ==
    \/ \E u \in Users : confirm_yes(u)
    \/ \E u \in Users, text \in ADMIN_COMMANDS : AdminAuthMiddleware(u, text)
    \/ \E u \in Users, data \in AdminCallbacks : AdminCallbackMiddleware(u, data)
    \/ \E u \in Users, text \in Passwords : check_admin_password(u, text)

SpecAdmin == InitAdmin /\ [][NextAdmin]_vars


\* ================================================================ claims
\* The five tiers as the specification lists them, longest lead time first:
\* lead time in hours and idempotency flag.
TierHours == <<168, 72, 24, 7, 4>>
TierFlag ==
    <<"reminder_week", "reminder_3days", "reminder_day", "reminder_hours",
      "reminder_hour">>

\* The scan itself takes the step (not the clock, not an admin).
ScanStep == scanVars' # scanVars

\* The event the scan is handling.
Current == Head(events)

\* interval >= diff > interval - 2h, at the scan's now, for the date the scan
\* loaded.
InTierWindow(k) ==
    /\ TierHours[k] >= Current.event_date - now
    /\ Current.event_date - now > TierHours[k] - 2

\* The tiers still to be checked in this evaluation that the specification
\* says must fire: inside the window, flag still false in the store.
MustFire ==
    {k \in 1..5 : k >= tier /\ InTierWindow(k) /\ ~db[Current.id][TierFlag[k]]}

\* C1: for every active event, tier and evaluation time, send_event_reminders
\* fires the tier iff interval >= eventDate - now > interval - 2h and the
\* tier's flag is false (upper bound inclusive, lower bound exclusive); firing
\* fans the reminder out first and sets the flag afterwards.
C1_TierFiresIffInWindow ==
    [][/\ (pc = "eval" /\ ScanStep /\ Current.id \in DOMAIN db) =>
             IF MustFire = {}
                THEN pc' # "send"
                ELSE /\ pc' = "send"
                     /\ tier' \in MustFire
                     /\ \A j \in MustFire : tier' <= j
       /\ (pc = "send" /\ ScanStep) =>
             /\ pc' = "mark"
             /\ reminded'[Current.id][tier] = reminded[Current.id][tier] + 1
             /\ db' = db
       /\ (pc = "mark" /\ ScanStep /\ pc' = "eval") =>
             /\ ~db[Current.id][TierFlag[tier]]
             /\ db'[Current.id][TierFlag[tier]]
      ]_vars

\* A tier has been fanned out at diff = interval exactly.
C1_Witness ==
    /\ pc = "mark"
    /\ Current.event_date - now = TierHours[tier]

\* C2 (as amended): once a tier's flag is true for an event no evaluation
\* delivers that tier again, and the tier is fanned out at most once more
\* than its flag commit has failed.
C2_NoDeliveryOnceFlagged ==
    /\ [][\A e \in DOMAIN db : \A k \in 1..5 :
             db[e][TierFlag[k]] => reminded'[e][k] = reminded[e][k]]_vars
    /\ [](\A e \in Events : \A k \in 1..5 : reminded[e][k] <= 1 + markFailed[e][k])

\* C2 (as claimed): once a tier's flag is true no evaluation delivers the
\* tier again, and evaluations at an unchanged now deliver a tier's reminder
\* at most once in total.
C2_AtMostOnceInTotal ==
    /\ [][\A e \in DOMAIN db : \A k \in 1..5 :
             db[e][TierFlag[k]] => reminded'[e][k] = reminded[e][k]]_vars
    /\ [](\A e \in Events : \A k \in 1..5 : reminded[e][k] <= 1)

\* A scan has loaded an event whose tier was delivered and flagged, and is
\* about to evaluate it again inside the same window.
C2_Witness ==
    /\ pc = "eval"
    /\ tier = 1
    /\ \E k \in 1..5 :
          /\ InTierWindow(k)
          /\ Current[TierFlag[k]]
          /\ reminded[Current.id][k] = 1

\* C3: a persisted reminder flag only ever goes from false to true: once true
\* it is true in every later state of the event, whatever scans, reschedules
\* and failures follow.
C3_FlagMonotone ==
    [][\A e \in DOMAIN db : \A k \in 1..5 :
          (db[e][TierFlag[k]] /\ e \in DOMAIN db') => db'[e][TierFlag[k]]]_vars

\* An event is evaluated again after the window of a flagged tier has closed.
C3_Witness ==
    /\ pc = "eval"
    /\ tier = 1
    /\ Current.id \in DOMAIN db
    /\ \E k \in 1..5 :
          /\ db[Current.id][TierFlag[k]]
          /\ Current.event_date - now <= TierHours[k] - 2

\* C4 (as claimed): status never goes back from completed to active, and an
\* event whose status is completed has its date more than one hour in the
\* past, also when it is rescheduled while or after a scan handles it.
C4_StatusInvariant ==
    /\ [][\A e \in DOMAIN db :
             (db[e].status = "completed" /\ e \in DOMAIN db')
                => db'[e].status = "completed"]_vars
    /\ [](\A e \in DOMAIN db :
             db[e].status = "completed" => clock > db[e].event_date + 1)

\* C5 (as amended): the completion notice of an event is sent at most once
\* more than its completion has failed (the notice raised, or the status
\* commit failed), and once the status is persisted as completed no scan
\* loads the event, notifies admins about it or sends a reminder for it.
C5_NoNoticeOnceCompleted ==
    /\ [](\A e \in Events : noticed[e] <= 1 + statusFailed[e] + notifyFailed[e])
    /\ [][\A e \in DOMAIN db :
             db[e].status = "completed" =>
                /\ noticed'[e] = noticed[e]
                /\ reminded'[e] = reminded[e]
                /\ \A i \in DOMAIN events' : events'[i].id # e]_vars

\* C5 (as claimed): over any sequence of scans the completion notice of an
\* event is sent at most once, and no scan after the completing one loads
\* the event, notifies admins about it or sends a reminder for it.
C5_CompletionExactlyOnce ==
    /\ [](\A e \in Events : noticed[e] <= 1)
    /\ [][\A e \in DOMAIN db :
             db[e].status = "completed" =>
                /\ noticed'[e] = noticed[e]
                /\ reminded'[e] = reminded[e]
                /\ \A i \in DOMAIN events' : events'[i].id # e]_vars

\* An event was completed by the scan after the one whose status commit
\* failed, and a scan is running without it.
C5_Witness ==
    /\ pc = "eval"
    /\ \E e \in DOMAIN db :
          /\ db[e].status = "completed"
          /\ statusFailed[e] = 1
          /\ noticed[e] = 2

\* C6 (as claimed), for the events a scan has loaded but not reached yet: when
\* the scan ends, with a store that never failed, every one of them that was
\* due for completion at the scan's now and is still in the store is
\* completed.
C6_CompletedByFirstScan ==
    [][(pc # "idle" /\ pc' = "idle" /\ faults' = 0) =>
          \A i \in DOMAIN events :
             (/\ i > 1
              /\ now > events[i].event_date + 1
              /\ events[i].id \in DOMAIN db')
                => db'[events[i].id].status = "completed"]_vars

\* C7: when the commit of mark_reminder_sent fails the scan ends with the
\* persisted flag still false, and the next evaluation of the event inside
\* the tier's window fires the tier again.
C7_FailedMarkIsRetried ==
    [][\A e \in Events : \A k \in 1..5 :
          /\ markFailed'[e][k] > markFailed[e][k] =>
                /\ pc' = "idle"
                /\ raised' = "error"
                /\ e \in DOMAIN db' => ~db'[e][TierFlag[k]]
          /\ (/\ pc = "eval"
              /\ ScanStep
              /\ Current.id = e
              /\ e \in DOMAIN db
              /\ markFailed[e][k] > 0
              /\ ~db[e][TierFlag[k]]
              /\ InTierWindow(k))
                => (pc' = "send" /\ tier' = k)]_vars

\* The tier has been fanned out a second time after its flag commit failed.
C7_Witness ==
    /\ pc = "mark"
    /\ markFailed[Current.id][tier] = 1
    /\ reminded[Current.id][tier] = 2
    /\ Current.id \in DOMAIN db
    /\ ~db[Current.id][TierFlag[tier]]

\* C8: a fan-out in which the sends to any subset of the recipients failed is
\* followed by mark_reminder_sent for the same event and tier, and unless the
\* commit itself fails that evaluation persists the flag as true.
C8_DeliveryFailureKeepsFlagUpdate ==
    [][/\ (pc = "send" /\ ScanStep) =>
             /\ pc' = "mark"
             /\ tier' = tier
             /\ events' = events
       /\ (pc = "mark" /\ ScanStep /\ markFailed' = markFailed) =>
             /\ failed' = failed
             /\ db'[Current.id][TierFlag[tier]]
      ]_vars

\* Every send of the fan-out failed and the tier's flag is persisted.
C8_Witness ==
    /\ pc = "eval"
    /\ tier > 1
    /\ failed = Users
    /\ Current.id \in DOMAIN db
    /\ db[Current.id][TierFlag[tier - 1]]

\* The recipients of the running fan-out whose send fails.
Failing == {u \in DOMAIN outcome : outcome[u] # "ok"}

C10_ConcurrencyBound ==
    /\ inflight <= 20
    /\ Cardinality({u \in DOMAIN task : task[u] = "sending"}) <= 20

\* The cap is reached while further recipients wait for a permit.
C10_Witness ==
    /\ inflight = 20
    /\ pending > 0

\* C11 (as claimed): when the caller of a fan-out goes on to set the tier's
\* flag or the entry's sent marker, no delivery the fan-out spawned is still
\* pending or in flight, whatever the individual sends raised.
C11_JobWaitsForFanout ==
    /\ fanPc = "marked" => \A u \in DOMAIN task : task[u] \in Final
    /\ \A j \in CronHours :
          dpc[j] = "mark" => \A u \in DOMAIN dtask[j] : dtask[j][u] \in Final

\* The oldest entry of the queue not marked sent, 0 when there is none.
OldestPending(q) ==
    IF \E i \in DOMAIN q : ~q[i].sent
       THEN CHOOSE i \in DOMAIN q : ~q[i].sent /\ \A k \in 1..(i - 1) : q[k].sent
       ELSE 0

NumPending(q) == Cardinality({i \in DOMAIN q : ~q[i].sent})

\* An invocation of job j finds an entry and starts its fan-out.
DrainStarts(j) == dpc[j] = "idle" /\ dpc'[j] = "gather"

\* The invocation of job j marks its entry and ends, the commit succeeding.
DrainMarks(j) == dpc[j] = "mark" /\ dpc'[j] = "idle" /\ faults' = faults

\* The invocation of job j ends with mark_as_sent failing.
DrainMarkFails(j) == dpc[j] = "mark" /\ dpc'[j] = "idle" /\ faults' > faults

\* C12: one invocation of the drain that finds pending entries takes the
\* oldest pending one, marks that entry and no other (one entry fewer is
\* pending afterwards, the others stay as they were), and runs each user's
\* send at most once; the invocation after it takes the next oldest.
C12_OneEntryPerDrain ==
    [][/\ queue' # queue =>
             \/ \E j \in CronHours : dpc[j] = "mark" /\ dpc'[j] = "idle"
             \/ /\ dpc' = dpc
                /\ Len(queue') = Len(queue) + 1
                /\ \A i \in DOMAIN queue : queue'[i] = queue[i]
       /\ \A j \in CronHours :
          /\ DrainStarts(j) =>
                /\ message'[j] # 0
                /\ message'[j] = OldestPending(queue)
                /\ queue' = queue
          /\ DrainMarks(j) =>
                /\ Len(queue') = Len(queue)
                /\ queue'[message[j]].sent
                /\ \A i \in DOMAIN queue : i # message[j] => queue'[i] = queue[i]
                /\ ~queue[message[j]].sent => NumPending(queue') = NumPending(queue) - 1
          /\ (dpc[j] = "gather" /\ dpc'[j] # "idle") =>
                \A u \in DOMAIN dtask[j] :
                   /\ u \in DOMAIN dtask'[j]
                   /\ dtask[j][u] \in Final => dtask'[j][u] = dtask[j][u]
                   /\ dtask[j][u] = "sending" => dtask'[j][u] # "created"
      ]_vars

\* Of three entries the two oldest were marked by two invocations, one after
\* the other, and the third is still pending.
C12_Witness ==
    /\ Len(queue) = 3
    /\ queue[1].sent
    /\ queue[2].sent
    /\ ~queue[3].sent
    /\ drains = 2
    /\ fanned = <<1, 1, 0>>
    /\ \A j \in CronHours : dpc[j] = "idle"

\* C13: once an entry is marked sent its marker stays sent, no invocation
\* that starts afterwards selects it or fans it out, and no entry is ever
\* removed from the queue.
C13_SentMarkerFinal ==
    [][/\ \A i \in DOMAIN queue :
             /\ i \in DOMAIN queue'
             /\ queue[i].sent =>
                   /\ queue'[i].sent
                   /\ fanned'[i] = fanned[i]
       /\ \A j \in CronHours : DrainStarts(j) => ~queue[message'[j]].sent
      ]_vars

\* An invocation that started after the first entry was marked sent is
\* fanning out the second.
C13_Witness ==
    \E j \in CronHours :
       /\ dpc[j] = "gather"
       /\ message[j] = 2
       /\ queue[1].sent
       /\ fanned[1] = 1

\* C14: whatever the sends of a drain's fan-out do, no coroutine raises, the
\* invocation goes from the fan-out on to mark_as_sent for the entry it
\* fetched, once, and unless that commit fails the entry is then marked sent.
C14_MarkedWhateverOutcomes ==
    /\ [](\A j \in CronHours : \A u \in DOMAIN dtask[j] : dtask[j][u] # "raised")
    /\ [][\A j \in CronHours :
             /\ (dpc[j] = "gather" /\ dpc'[j] # "gather") =>
                   /\ dpc'[j] = "mark"
                   /\ message'[j] = message[j]
             /\ (dpc[j] = "mark" /\ dpc'[j] # "mark") => dpc'[j] = "idle"
             /\ DrainMarks(j) =>
                   /\ queue'[message[j]].sent
                   /\ dlast' = "done"
         ]_vars

\* Every send of a drain's fan-out failed and the invocation is about to
\* mark its entry.
C14_Witness ==
    \E j \in CronHours :
       /\ dpc[j] = "mark"
       /\ DOMAIN dtask[j] = Users
       /\ \A u \in Users : dtask[j][u] = "failed"

\* C15: when mark_as_sent fails the invocation ends with the queue as it
\* was, the entry (if no other invocation marked it) is still the oldest
\* pending one, and an invocation that starts takes the oldest pending
\* entry: the same one again.
C15_FailedMarkerIsRetried ==
    [][\A j \in CronHours :
          /\ DrainMarkFails(j) =>
                /\ queue' = queue
                /\ ~queue[message[j]].sent =>
                      /\ ~queue'[message[j]].sent
                      /\ OldestPending(queue') = message[j]
          /\ DrainStarts(j) => message'[j] = OldestPending(queue)
      ]_vars

\* The first entry is fanned out a second time after the invocation that
\* fanned it out first failed to mark it.
C15_Witness ==
    /\ drains = 2
    /\ faults = 1
    /\ dlast = "logged"
    /\ fanned[1] = 2
    /\ ~queue[1].sent
    /\ \E j \in CronHours :
          /\ dpc[j] = "gather"
          /\ message[j] = 1
          /\ \A i \in CronHours \ {j} : dpc[i] = "idle"

\* C16 (as claimed): a failed commit of a flag, a status or a sent marker
\* propagates out of the invocation it happens in, scan or drain, and a
\* failed delivery does not.
C16_PersistenceErrorsPropagate ==
    [][/\ \A j \in CronHours :
             DrainMarkFails(j) => dlast' = "raised"
       /\ (markFailed' # markFailed \/ statusFailed' # statusFailed) =>
             raised' = "error"
       /\ (pc \in {"send", "notify"} /\ ScanStep) => raised' # "error"
       /\ \A j \in CronHours : (dpc[j] = "gather" /\ dpc'[j] = "idle") => dlast' # "raised"
      ]_vars

\* C17 (as claimed): within a scan over several events, a failure of a send
\* to a user or an admin, or of a read of the recipients, does not end the
\* scan while events remain to be evaluated.
C17_EventLocalRecovery ==
    [][(pc \in {"send", "notify"} /\ ScanStep /\ Len(events) > 1) => pc' # "idle"]_vars

\* C18 (as claimed): at no instant are two invocations of the broadcast drain
\* executing (the scan has one invocation at most: its interval job is one
\* job limited to one running instance).
C18_RunGuard ==
    Cardinality({j \in CronHours : dpc[j] # "idle"}) <= 1

\* C19 (as claimed): in every interleaving of timer firings, deliveries and
\* commits, with nothing failing, each (event, tier) pair and each broadcast
\* entry is fanned out at most once.
C19_NoDoubleFiring ==
    faults = 0 =>
       /\ \A m \in DOMAIN fanned : fanned[m] <= 1
       /\ \A e \in Events : \A k \in 1..5 : reminded[e][k] <= 1

\* C20: a scan that finds no active event and a drain that finds no pending
\* entry (the store answering) end without an error, start no send, and
\* leave every flag, status and sent marker as it was.
C20_EmptyStateNoOp ==
    [][/\ (pc = "idle" /\ ScanStep /\ \A e \in DOMAIN db : db[e].status # "active") =>
             /\ pc' = "idle"
             /\ raised' = "ok"
             /\ events' = <<>>
             /\ UNCHANGED <<db, queue, reminded, noticed, fanned, dtask, fanVars>>
       /\ (drains' > drains /\ NumPending(queue) = 0 /\ faults' = faults) =>
             /\ dlast' = "noop"
             /\ UNCHANGED <<db, queue, dpc, message, dtask, fanned, reminded, noticed,
                            fanVars>>
      ]_vars

\* A scan over a store of completed events and a drain of a queue whose only
\* entry is sent have both ended as no-ops.
C20_Witness ==
    /\ raised = "ok"
    /\ DOMAIN db = Events
    /\ dlast = "noop"
    /\ Len(queue) = 1
    /\ queue[1].sent

\* The reminder flags of an event row.
FlagFields == {TierFlag[k] : k \in 1..5}

\* C21: an evaluation that fires tier t for an event changes nothing in the
\* store before its commit, and the commit sets the flag of t to true and
\* leaves the other four flags, the status, the date, the name and the
\* description of the event, and every other event, as they were.
C21_TierFiringFrame ==
    [][/\ (pc \in {"eval", "send"} /\ ScanStep) => db' = db
       /\ (pc = "mark" /\ ScanStep /\ pc' = "eval") =>
             /\ DOMAIN db' = DOMAIN db
             /\ db'[Current.id][TierFlag[tier]]
             /\ \A e \in DOMAIN db : \A f \in DOMAIN db[e] :
                   (e # Current.id \/ f # TierFlag[tier]) => db'[e][f] = db[e][f]
      ]_vars

\* The week tier of an event 6 days 23 hours ahead was fired: its row has
\* the week flag and is otherwise as created.
C21_Witness ==
    /\ pc = "eval"
    /\ tier = 2
    /\ Current.event_date - now = 167
    /\ db[Current.id].reminder_week
    /\ db[Current.id].status = "active"
    /\ \A k \in 2..5 : ~db[Current.id][TierFlag[k]]

\* C23: at no time is an event inside the windows of two tiers, so once a
\* tier has fired in an evaluation of an event no second tier fires in it,
\* and after a tier has fired the evaluation goes on with the next tier of
\* the same event.
C23_AtMostOneTierPerEvaluation ==
    /\ [](\A e \in DOMAIN db : \A k1, k2 \in Tiers :
             (/\ InWindow(REMINDER_CONFIGS[k1].interval, db[e].event_date - clock)
              /\ InWindow(REMINDER_CONFIGS[k2].interval, db[e].event_date - clock))
             => k1 = k2)
    /\ [][/\ (pc = "eval" /\ tier > 1 /\ ScanStep) => pc' # "send"
          /\ (pc = "mark" /\ ScanStep /\ pc' # "idle") =>
                /\ pc' = "eval"
                /\ tier' = tier + 1
                /\ Len(events') = Len(events)
         ]_vars

\* The 7-hour tier has fired and the evaluation has gone on to the 4-hour
\* tier of the same event.
C23_Witness ==
    /\ pc = "eval"
    /\ tier = 5
    /\ Current.reminder_hours
    /\ ~Current.reminder_hour

\* The fields of an event row the reminder scan may write.
ScanFields == FlagFields \cup {"status"}

\* A step of a drain invocation.
DrainStep == dpc' # dpc \/ dtask' # dtask \/ drains' # drains

C28_CancelledOutOfConsideration ==
    [][\A e \in Events :
          e \notin DOMAIN db =>
             /\ reminded'[e] = reminded[e]
             /\ noticed'[e] = noticed[e]]_vars

\* C29: the scan notifies the admins of a due event while its persisted
\* status is still active; the status is persisted as completed only by the
\* commit that follows a notice; and when notifying raises, the scan ends with
\* the error and the persisted status still active.
C29_NotifyBeforeCompleted ==
    [][/\ (pc = "notify" /\ ScanStep) =>
             /\ db' = db
             /\ Current.id \in DOMAIN db => db[Current.id].status = "active"
             /\ pc' = "commit" => noticed'[Current.id] = noticed[Current.id] + 1
             /\ pc' # "commit" => (pc' = "idle" /\ raised' = "error")
       /\ \A e \in DOMAIN db :
             (db[e].status = "active" /\ e \in DOMAIN db' /\ db'[e].status = "completed") =>
                /\ pc = "commit"
                /\ Current.id = e
                /\ noticed[e] >= 1
      ]_vars

\* Notifying raised after some admins were notified: the scan ended with the
\* error and the event is still active.
C29_Witness ==
    /\ pc = "idle"
    /\ raised = "error"
    /\ \E e \in DOMAIN db :
          /\ notifyFailed[e] = 1
          /\ noticed[e] = 1
          /\ db[e].status = "active"

\* The reminder fan-out is over: the flag was marked and every coroutine has
\* ended.
ReminderDone ==
    /\ fanKind = "reminder"
    /\ fanPc = "marked"
    /\ \A u \in DOMAIN task : task[u] \in Final

\* The call the claim gives user u of the store.
ClaimedCall(u) ==
    IF u \in fanInput.registered
       THEN [method |-> "send_message", text |-> "text", media |-> FALSE,
             keyboard |-> [kind |-> "none", event |-> 0]]
       ELSE [method |-> "send_message", text |-> "text_register", media |-> FALSE,
             keyboard |-> [kind |-> "registration", event |-> fanInput.event]]

\* C22 (as claimed): when the fan-out of a fired tier is over, every user id
\* known to the store was sent exactly one message: the plain reminder
\* without keyboard if the user is registered for the event, the reminder
\* with the call-to-action and the registration keyboard of that event
\* otherwise.
C22_RecipientsOfFiredTier ==
    ReminderDone =>
       \A u \in fanInput.known :
          /\ u \in DOMAIN task
          /\ attempts[u] = 1
          /\ call[u] = ClaimedCall(u)

\* The same when both reads of the store succeeded.
RecipientsWhenStoreReadable ==
    (ReminderDone /\ fanInput.usersRead /\ fanInput.registeredRead) =>
       \A u \in fanInput.known :
          /\ u \in DOMAIN task
          /\ attempts[u] = 1
          /\ call[u] = ClaimedCall(u)

\* The method the claim names for a media kind.
ClaimedMethod(media_type) ==
    CASE media_type = "photo"      -> "send_photo"
      [] media_type = "voice"      -> "send_voice"
      [] media_type = "video_note" -> "send_video_note"
      [] media_type = "video"      -> "send_video"
      [] OTHER                     -> "send_message"

\* C30: in the fan-out of a drained entry no recipient gets more than one
\* call, every call made is the one of the entry's media kind (photo ->
\* send_photo, voice -> send_voice, video_note -> send_video_note, video ->
\* send_video, otherwise send_message with the entry's text), and when the
\* fan-out is over every recipient got exactly one call.
C30_MediaDispatch ==
    fanKind = "broadcast" =>
       \A u \in DOMAIN task :
          /\ attempts[u] <= 1
          /\ attempts[u] = 0 => call[u].method = "none"
          /\ attempts[u] = 1 =>
                /\ call[u].method = ClaimedMethod(fanInput.media_type)
                /\ call[u].method = "send_message" => call[u].text = "text"
          /\ (fanPc = "marked" \/ task[u] \in Final) => attempts[u] = 1

\* A video note was delivered to both users by send_video_note.
C30_Witness ==
    /\ fanKind = "broadcast"
    /\ fanPc = "marked"
    /\ fanInput.media_type = "video_note"
    /\ DOMAIN task = Users
    /\ \A u \in Users : task[u] \in Final /\ call[u].method = "send_video_note"

\* No entry is being fanned out while an older entry is pending.
FannedInCreationOrder ==
    \A j \in CronHours :
       dpc[j] # "idle" => \A i \in 1..(message[j] - 1) : queue[i].sent

\* C25 (as claimed): entries are fanned out and marked in creation order, and
\* every invocation of the drain whose marking succeeds leaves one pending
\* entry fewer, so that an entry with j older pending entries is marked sent
\* by the (j+1)-th following drain.
C25_QueueLivenessAndOrder ==
    /\ [](FannedInCreationOrder)
    /\ [][\A j \in CronHours :
             DrainMarks(j) => NumPending(queue') = NumPending(queue) - 1]_vars

\* The running scan started inside the window of tier k of event e, whose
\* flag it loaded as false, and has not evaluated that tier yet.
StartedInWindow(e, k) ==
    /\ pc # "idle"
    /\ \E i \in DOMAIN events :
          /\ events[i].id = e
          /\ ~events[i][TierFlag[k]]
          /\ TierHours[k] >= events[i].event_date - now
          /\ events[i].event_date - now > TierHours[k] - 2
          /\ i = 1 => (pc = "eval" /\ tier <= k)

\* Event e is active, the flag of its tier k is false and the window of the
\* tier opens later, within the hours the clock covers.
BeforeWindow(e, k) ==
    /\ e \in DOMAIN db
    /\ db[e].status = "active"
    /\ ~db[e][TierFlag[k]]
    /\ db[e].event_date - clock > TierHours[k]
    /\ db[e].event_date - TierHours[k] <= MaxClock

NumSent(q) == Len(q) - NumPending(q)

\* A step that starts a scan.
ScanStarts == pc = "idle" /\ ScanStep

\* C26 (as claimed): every firing of the interval trigger starts a scan, and
\* every firing of a cron trigger starts a drain, so that no more entries
\* are marked sent in a day than cron triggers have fired, three at most.
C26_EveryFiringStartsItsJob ==
    /\ ~skipped
    /\ drains = Cardinality(fired)
    /\ NumSent(queue) <= Cardinality(fired)
    /\ Cardinality(fired) <= 3

\* C26 (amended): a firing of the interval trigger starts one scan, of all
\* the active events, each loaded once, when no scan is running, and is
\* skipped, starting nothing, while a scan is running; every firing of a cron
\* trigger starts exactly one drain, of its own job, and a drain starts in
\* no other way; no more entries are marked sent in a day than cron triggers
\* have fired, three at most.
C26_TriggerWiring ==
    /\ [][/\ ScanStarts =>
                /\ scanned'
                /\ ~skipped' \/ skipped
                /\ Len(events') = Cardinality(get_active_events)
                /\ {events'[i].id : i \in DOMAIN events'} = get_active_events
                /\ now' = clock
          /\ (skipped' # skipped) =>
                /\ pc # "idle"
                /\ UNCHANGED <<db, scanVars, drainVars, histVars, fired, scanned>>
          /\ (fired' # fired) =>
                \E j \in CronHours :
                   /\ j \notin fired
                   /\ fired' = fired \cup {j}
                   /\ drains' = drains + 1
                   /\ dpc[j] = "idle"
                   /\ \A i \in CronHours \ {j} :
                         dpc'[i] = dpc[i] /\ message'[i] = message[i]
          /\ (drains' # drains) => fired' # fired
         ]_vars
    /\ [](/\ drains = Cardinality(fired)
          /\ NumSent(queue) <= Cardinality(fired)
          /\ Cardinality(fired) <= 3)

\* The three cron triggers have fired, three entries are marked sent, and a
\* firing of the interval trigger was skipped while a scan was running.
C26_Witness ==
    /\ fired = CronHours
    /\ NumSent(queue) = 3
    /\ skipped
    /\ scanned
    /\ pc # "idle"

\* C31 (as claimed): whenever the scan goes on to set the flag of a fired
\* tier, a send was attempted to every user id the store held when the tier
\* fired, also when a read of the store failed.
C31_FlagImpliesAttemptToEveryone ==
    (fanKind = "reminder" /\ fanPc = "marked") =>
       \A u \in fanInput.known : u \in DOMAIN task /\ attempts[u] >= 1

\* The same when the read of the user ids succeeded and no send raised
\* anything but a TelegramAPIError.
AttemptedWhenReadableAndCaught ==
    (/\ fanKind = "reminder"
     /\ fanPc = "marked"
     /\ fanInput.usersRead
     /\ \A u \in DOMAIN outcome : outcome[u] # "error") =>
       \A u \in fanInput.known : u \in DOMAIN task /\ attempts[u] >= 1

\* C32 (as claimed): whenever a drain marks its entry sent, a send of the
\* entry was attempted to every user id of the store, also when the read of
\* the user ids failed.
C32_MarkerImpliesAttemptToEveryone ==
    [][\A j \in CronHours :
          DrainMarks(j) =>
             /\ DOMAIN dtask[j] = Users
             /\ \A u \in Users : dtask[j][u] \in Final]_vars

\* The same for a drain whose read of the user ids succeeded: its entry is
\* marked after a send to every user id has ended.
MarkedAfterAttemptsWhenReadable ==
    [][\A j \in CronHours :
          (DrainMarks(j) /\ DOMAIN dtask[j] # {}) =>
             /\ DOMAIN dtask[j] = Users
             /\ \A u \in Users : dtask[j][u] \in Final]_vars

\* C33: a missed window is never caught up.  A tier's flag becomes true, and
\* its reminder is fanned out, only in a scan whose now lies inside the tier's
\* window for the date that scan loaded; an event that no scan evaluates
\* inside the window keeps the flag false and gets no reminder of that tier.
C33_MissedWindowNeverCaughtUp ==
    [][\A e \in Events : \A k \in 1..5 :
          (\/ reminded'[e][k] > reminded[e][k]
           \/ /\ e \in DOMAIN db
              /\ e \in DOMAIN db'
              /\ ~db[e][TierFlag[k]]
              /\ db'[e][TierFlag[k]])
          => /\ pc \in {"send", "mark"}
             /\ Current.id = e
             /\ tier = k
             /\ InTierWindow(k)]_vars

\* An event dated two hours after the start, too late for the window of the
\* four-hour tier, has been evaluated to its completion: that tier was never
\* sent and its flag is false.
C33_Witness ==
    /\ pc = "notify"
    /\ Current.event_date = 2
    /\ Current.id \in DOMAIN db
    /\ ~db[Current.id][TierFlag[5]]
    /\ reminded[Current.id][5] = 0

\* C34: no reminder is fanned out for an event whose date is two hours or
\* less ahead of the scan's now, or behind it; so no evaluation of an event
\* both fires a tier and completes the event.
C34_NoLateReminders ==
    /\ pc \in {"send", "mark"} => Current.event_date - now > 2
    /\ pc \in {"notify", "commit"} =>
          /\ tier = 1
          /\ now - Current.event_date > 1

\* The reminder closest to the date: a tier is being fanned out three hours
\* ahead of the event.
C34_Witness ==
    /\ pc = "send"
    /\ Current.event_date - now = 3

\* A step of confirm_reschedule: the user who pressed the button was in
\* state RescheduleEvent.confirmation.
RescheduleStep ==
    /\ adminOps' = adminOps + 1
    /\ last'.text = "confirm_reschedule"
    /\ fsm_state[last'.user] = "RescheduleEvent:confirmation"

\* The fields of an event other than its date.
KeptFields == {"name", "description", "status"} \cup FlagFields

\* C35: confirm_reschedule changes only the event's date: the five reminder
\* flags and the status of every event keep their values, no event appears or
\* disappears and the scan's objects are not touched; so a tier whose flag is
\* true when the event is rescheduled is never fanned out for the new date.
C35_RescheduleFrame ==
    /\ [][RescheduleStep =>
             /\ DOMAIN db' = DOMAIN db
             /\ \A e \in DOMAIN db :
                   /\ \A f \in KeptFields : db'[e][f] = db[e][f]
                   /\ e # last'.event_id => db'[e] = db[e]
             /\ scanVars' = scanVars
             /\ reminded' = reminded]_vars
    /\ [][\A e \in DOMAIN db : \A k \in 1..5 :
             (rescheduleNoticed[e] > 0 /\ db[e][TierFlag[k]]) =>
                reminded'[e][k] = reminded[e][k]]_vars

\* An event whose tier fired for the old date has been rescheduled, and a
\* scan evaluates it inside the same tier's window for the new date.
C35_Witness ==
    /\ pc = "eval"
    /\ Current.id \in DOMAIN db
    /\ rescheduleNoticed[Current.id] = 1
    /\ db[Current.id].event_date = Current.event_date
    /\ \E k \in 1..5 :
          /\ InTierWindow(k)
          /\ db[Current.id][TierFlag[k]]
          /\ reminded[Current.id][k] = 1

\* The input of the step is one the specification says is rejected: a date
\* not later than now, an unknown event id, or the date the event has.
Rejected ==
    \/ last'.new_date <= clock
    \/ last'.event_id \notin DOMAIN db
    \/ db[last'.event_id].event_date = last'.new_date

\* C36: confirm_reschedule with a new date not later than now, with an
\* unknown event id, or with the event's current date leaves every event's
\* date, flags and status unchanged, sends no reschedule notice and clears
\* the dialogue state.
C36_RejectedReschedule ==
    [][(RescheduleStep /\ Rejected) =>
          /\ db' = db
          /\ rescheduleNoticed' = rescheduleNoticed
          /\ fsm_state'[last'.user] = "none"
          /\ fsm_data'[last'.user] = NoData]_vars

\* Each of the three rejections has happened: the witness is the one of a
\* date that passed between its entry and the confirmation.
C36_Witness ==
    /\ last.text = "confirm_reschedule"
    /\ last.new_date <= clock
    /\ clock > 0
    /\ last.event_id \in DOMAIN db
    /\ adminOps = 1
    /\ rescheduleNoticed = [e \in Events |-> 0]
    /\ fsm_state[last.user] = "none"

RejectedUnknown ==
    /\ last.text = "confirm_reschedule"
    /\ last.outcome = "unknown"

RejectedSame ==
    /\ last.text = "confirm_reschedule"
    /\ last.outcome = "same"

\* The password the user typed is the one whose hash the store holds.
Correct(u, text) == <<"bcrypt", text>> = password_hash[u]

\* An update of kind `update` has just been handled.
Handles(update) == updates' = updates + 1 /\ last'.update = update

\* C37: a protected handler is never invoked for a user who is not an admin;
\* for an admin it is invoked only by the step in which that user, in state
\* AdminAuth.password, supplies their correct password; a wrong password
\* invokes no protected handler and leaves the state at AdminAuth.password.
C37_AdminGate ==
    /\ [][\A u \in Users :
             invoked'[u] # invoked[u] =>
                /\ u \in Admins
                /\ fsm_state[u] = "AdminAuth:password"
                /\ Handles("password")
                /\ last'.user = u
                /\ Correct(u, last'.text)]_vars
    /\ [][(Handles("password") /\ ~Correct(last'.user, last'.text)) =>
             /\ invoked' = invoked
             /\ fsm_state[last'.user] = "AdminAuth:password"
             /\ fsm_state'[last'.user] = "AdminAuth:password"]_vars
    /\ [][(Handles("message") \/ Handles("callback")) => invoked' = invoked]_vars
    /\ [](\A u \in Users \ Admins : invoked[u] = <<>> /\ fsm_state[u] # "AdminAuth:password")

\* An admin's protected handler has been invoked on the correct password, and
\* a user who is no admin has then been refused.
C37_Witness ==
    /\ \E u \in Admins : invoked[u] # <<>>
    /\ last.outcome = "refused"
    /\ last.user \notin Admins

\* The handler of an intercepted update: the text command /x and the callback
\* command_x both stand for the command x.
HandlerOf(update) ==
    CASE update \in {"/add_event", "command_add_event"} -> "add_event"
      [] update \in {"/broadcast", "command_broadcast"} -> "broadcast"

\* C38 (as claimed): when an admin supplies the correct password, the handler
\* of the command that was intercepted last, text command or callback, is
\* executed, exactly once.
C38_InterceptedCommandResumed ==
    [][\A u \in Admins :
          (Handles("password") /\ last'.user = u /\ Correct(u, last'.text)) =>
             invoked'[u] = Append(invoked[u], HandlerOf(intercepted[u]))]_vars

\* What the code does for a callback: when the fake callback object is built,
\* the handler of the stored original_callback is executed once.
StoredCallbackResumed ==
    [][\A u \in Admins :
          (Handles("password") /\ last'.user = u /\ last'.outcome = "resumed") =>
             invoked'[u] = Append(invoked[u], HandlerOf(fsm_data[u].original_callback))]_vars

\* A text command was intercepted and the correct password supplied: the
\* state is cleared and no handler has been executed.
TextCommandDropped ==
    \E u \in Admins :
       /\ intercepted[u] \in ADMIN_COMMANDS
       /\ last.user = u
       /\ last.outcome = "cleared"
       /\ invoked[u] = <<>>
       /\ fsm_state[u] = "none"

\* A text command was intercepted after a callback: the correct password
\* executes the handler of the older callback.
StaleCallbackResumed ==
    \E u \in Admins :
       /\ intercepted[u] = "/add_event"
       /\ last.user = u
       /\ last.outcome = "resumed"
       /\ invoked[u] = <<"broadcast">>
====
